---- MODULE Spec2Model ----
(***************************************************************************)
(* Model of src/distributions/uniform/uniform_int.rs: UniformInt<X>, the   *)
(* integer back-end of Uniform, as instantiated by uniform_int_impl!.      *)
(*                                                                         *)
(* The macro is instantiated for ($ty, $unsigned, $u_large) triples.  The  *)
(* arithmetic is modular in the widths of those types, so the model keeps  *)
(* the three roles and scales the widths down: the 8-bit types are         *)
(* U8Bits wide, the 16-bit types U16Bits, the 32-bit types U32Bits, and    *)
(* $u_large (u32 for all three) is U32Bits wide.  The 64-bit, 128-bit and  *)
(* pointer-sized instantiations have $unsigned = $u_large exactly as the   *)
(* 32-bit ones have, and are represented by them.                          *)
(*                                                                         *)
(* The program around the sampler is the loop body of test_integers: for   *)
(* one pair (low, high) of one type it constructs samplers with new and    *)
(* new_inclusive, draws from them, and calls the two single-shot           *)
(* functions, in any order and any number of times.  The single-shot       *)
(* functions are associated functions that read no sampler; the caller     *)
(* uses them while it holds no sampler (my_uniform is out of scope).       *)
(***************************************************************************)
EXTENDS Integers, Sequences, FiniteSets, TLC

\* Scaled widths of u8/i8, u16/i16 and u32/i32 (and of the u32 word).
U8Bits == 2
U16Bits == 3
U32Bits == 4
\* The counter of words requested by one call saturates here.
MaxDraws == 2

VARIABLES ty, low_b, high_b, sampler, built, pc, op, frame, v, draws, result, overflowed

vars == <<ty, low_b, high_b, sampler, built, pc, op, frame, v, draws, result, overflowed>>

---------------------------------------------------------------------------
(* The instantiations, lines 192-203 *)

Types == {"i8", "i16", "i32", "u8", "u16", "u32"}

Signed(t) == t \in {"i8", "i16", "i32"}

\* width of $ty and of $unsigned
Bits(t) == IF t \in {"i8", "u8"} THEN U8Bits
           ELSE IF t \in {"i16", "u16"} THEN U16Bits
           ELSE U32Bits

\* width of $u_large: u32 for every modelled instantiation
LargeBits(t) == U32Bits

TyMin(t) == IF Signed(t) THEN -(2^(Bits(t) - 1)) ELSE 0
TyMax(t) == IF Signed(t) THEN 2^(Bits(t) - 1) - 1 ELSE 2^Bits(t) - 1
TyValues(t) == TyMin(t)..TyMax(t)

\* ::core::$unsigned::MAX, ::core::$u_large::MAX, ::core::u16::MAX
UnsignedMax(t) == 2^Bits(t) - 1
unsigned_max(t) == 2^LargeBits(t) - 1
U16Max == 2^U16Bits - 1

\* the values of one word of the entropy source, a $u_large
Words(t) == 0..unsigned_max(t)

---------------------------------------------------------------------------
(* Casts and wrapping arithmetic *)

\* `x as $unsigned`: keep the low Bits(t) bits, read them unsigned
AsUnsigned(t, x) == x % (2^Bits(t))

\* `x as $ty`: keep the low Bits(t) bits, read them in two's complement
AsTy(t, x) ==
    LET u == x % (2^Bits(t))
    IN  IF Signed(t) /\ u >= 2^(Bits(t) - 1) THEN u - 2^Bits(t) ELSE u

\* `x as $u_large` of an unsigned value / $u_large::from: zero extension
AsLarge(t, x) == x % (2^LargeBits(t))

wrapping_sub(t, a, b) == AsTy(t, a - b)
wrapping_add(t, a, b) == AsTy(t, a + b)

\* v.wmul(range) on $u_large: (high half, low half) of the full product
wmul(t, a, b) == [hi |-> (a * b) \div (2^LargeBits(t)),
                  lo |-> (a * b) % (2^LargeBits(t))]

\* $u_large::leading_zeros
RECURSIVE BitLength(_)
BitLength(x) == IF x = 0 THEN 0 ELSE 1 + BitLength(x \div 2)

leading_zeros(t, x) == LargeBits(t) - BitLength(x)

None == <<>>
Some(x) == <<x>>

---------------------------------------------------------------------------
(* UniformSampler for UniformInt<$ty> *)

\* Mutant of range_of: the count is taken in $u_large, not truncated to the
\* width of $unsigned.
range_of_Wide(t, low, high) == AsLarge(t, high - low + 1)

\* Mutant of range_of: the `+ 1` of the closed range is forgotten.
range_of_NoPlusOne(t, low, high) == AsUnsigned(t, wrapping_sub(t, high, low))

\* line 99 (and line 160): high.wrapping_sub(low).wrapping_add(1) as $unsigned
range_of(t, low, high) ==
    AsUnsigned(t, wrapping_add(t, wrapping_sub(t, high, low), 1))

\* Mutant of ints_to_reject: (MAX - range) % range, the `+ 1` forgotten.
ints_to_reject_NoPlusOne(t, range) ==
    IF range > 0
    THEN LET r == AsLarge(t, range)
         IN  (unsigned_max(t) - r) % r
    ELSE 0

\* lines 100-105: the number of words to reject, computed in $u_large
ints_to_reject(t, range) ==
    IF range > 0
    THEN LET r == AsLarge(t, range)
         IN  (unsigned_max(t) - r + 1) % r
    ELSE 0

\* line 102: does an intermediate value of the expression leave $u_large
ints_to_reject_overflows(t, range) ==
    /\ range > 0
    /\ LET r == AsLarge(t, range)
       IN  \/ unsigned_max(t) - r \notin Words(t)
           \/ unsigned_max(t) - r + 1 \notin Words(t)

\* Mutant of new_inclusive: the assertion of new (low < high) is used.
new_inclusive_StrictAssert(t, low, high) ==
    IF ~(low < high)
    THEN None
    ELSE LET range == range_of(t, low, high)
         IN  Some([low   |-> low,
                   range |-> AsTy(t, range),
                   z     |-> AsTy(t, AsUnsigned(t, ints_to_reject(t, range)))])

\* Mutant of new_inclusive: z holds the zone, not the number to reject.
new_inclusive_StoresZone(t, low, high) ==
    IF ~(low <= high)
    THEN None
    ELSE LET range == range_of(t, low, high)
         IN  Some([low   |-> low,
                   range |-> AsTy(t, range),
                   z     |-> AsTy(t, AsUnsigned(t,
                                unsigned_max(t) - ints_to_reject(t, range)))])

\* lines 86-113.  None stands for the failed assertion (the panic).  The
\* fields range and z hold $unsigned values stored as $ty.
new_inclusive(t, low, high) ==
    IF ~(low <= high)
    THEN None
    ELSE LET range == range_of(t, low, high)
         IN  Some([low   |-> low,
                   range |-> AsTy(t, range),
                   z     |-> AsTy(t, AsUnsigned(t, ints_to_reject(t, range)))])

\* Mutant of new: the exclusive bound is passed on without `- 1`.
new_NoMinusOne(t, low, high) ==
    IF ~(low < high)
    THEN None
    ELSE new_inclusive(t, low, high)

\* lines 73-82
new(t, low, high) ==
    IF ~(low < high)
    THEN None
    ELSE new_inclusive(t, low, wrapping_sub(t, high, 1))

\* lines 81 and 143: does `high - 1` leave $ty once the assertion has passed
high_minus_one_overflows(t, low, high) ==
    low < high /\ high - 1 \notin TyValues(t)

\* Mutant of sample_frame: the field z is taken for the zone itself.
sample_frame_ZoneIsZ(t, s) ==
    LET range == AsLarge(t, AsUnsigned(t, s.range))
    IN  [low   |-> s.low,
         range |-> range,
         zone  |-> IF range > 0 THEN AsLarge(t, AsUnsigned(t, s.z)) ELSE 0]

\* lines 117-120: the locals of sample
sample_frame(t, s) ==
    LET range == AsLarge(t, AsUnsigned(t, s.range))
    IN  [low   |-> s.low,
         range |-> range,
         zone  |-> IF range > 0
                   THEN unsigned_max(t) - AsLarge(t, AsUnsigned(t, s.z))
                   ELSE 0]

\* Mutant of sample_iter: the low half of the product is returned.
sample_iter_Lo(t, f, w) ==
    LET p == wmul(t, w, f.range)
    IN  [accept |-> p.lo <= f.zone,
         value  |-> wrapping_add(t, f.low, AsTy(t, p.lo))]

\* lines 122-126: one iteration of the loop of sample on the word w
sample_iter(t, f, w) ==
    LET p == wmul(t, w, f.range)
    IN  [accept |-> p.lo <= f.zone,
         value  |-> wrapping_add(t, f.low, AsTy(t, p.hi))]

\* Mutant of single_zone: the `- 1` of the approximation is forgotten.
single_zone_NoMinusOne(t, range) ==
    IF UnsignedMax(t) <= AsUnsigned(t, U16Max)
    THEN LET reject == (unsigned_max(t) - range + 1) % range
         IN  unsigned_max(t) - reject
    ELSE (range * 2^leading_zeros(t, range)) % (2^LargeBits(t))

\* Mutant of single_zone: the approximation is used at every width.
single_zone_AlwaysApprox(t, range) ==
    LET shifted == (range * 2^leading_zeros(t, range)) % (2^LargeBits(t))
    IN  (shifted - 1) % (2^LargeBits(t))

\* lines 167-178: the acceptance boundary of the single-shot sampler
single_zone(t, range) ==
    IF UnsignedMax(t) <= AsUnsigned(t, U16Max)
    THEN LET reject == (unsigned_max(t) - range + 1) % range
         IN  unsigned_max(t) - reject
    ELSE LET shifted == (range * 2^leading_zeros(t, range)) % (2^LargeBits(t))
         IN  (shifted - 1) % (2^LargeBits(t))

\* lines 154-178: the locals of sample_single_inclusive
single_frame(t, low, high) ==
    LET range == AsLarge(t, range_of(t, low, high))
    IN  [low   |-> low,
         range |-> range,
         zone  |-> IF range = 0 THEN 0 ELSE single_zone(t, range)]

\* lines 181-185: one iteration of the loop of sample_single_inclusive
single_iter(t, f, w) ==
    LET p == wmul(t, w, f.range)
    IN  [accept |-> p.lo <= f.zone,
         value  |-> wrapping_add(t, f.low, AsTy(t, p.hi))]

\* rng.gen() at $ty (lines 130 and 164): one word of the source, narrowed
\* to the width of $ty and read as $ty
gen_ty(t, w) == AsTy(t, w)

Bump(n) == IF n < MaxDraws THEN n + 1 ELSE n

---------------------------------------------------------------------------
(* The program: the body of test_integers for one pair of one type *)

Init ==
    /\ ty \in Types
    /\ low_b \in TyValues(ty)
    /\ high_b \in TyValues(ty)
    /\ sampler = None
    /\ built = "none"
    /\ pc = "idle"
    /\ op = "none"
    /\ frame = None
    /\ v = None
    /\ draws = 0
    /\ result = None
    /\ overflowed = FALSE

\* Uniform::new(low, high)
New ==
    /\ pc = "idle"
    /\ LET s == new(ty, low_b, high_b)
       IN  /\ sampler' = IF s = None THEN sampler ELSE s
           /\ built' = IF s = None THEN built ELSE "new"
           /\ pc' = IF s = None THEN "panic" ELSE "idle"
           /\ overflowed' =
                (\/ overflowed
                 \/ high_minus_one_overflows(ty, low_b, high_b)
                 \/ (s # None /\ ints_to_reject_overflows(ty, AsUnsigned(ty, s[1].range))))
    /\ op' = "new"
    /\ frame' = None /\ v' = None /\ draws' = 0 /\ result' = None
    /\ UNCHANGED <<ty, low_b, high_b>>

\* Uniform::new_inclusive(low, high)
NewInclusive ==
    /\ pc = "idle"
    /\ LET s == new_inclusive(ty, low_b, high_b)
       IN  /\ sampler' = IF s = None THEN sampler ELSE s
           /\ built' = IF s = None THEN built ELSE "new_inclusive"
           /\ pc' = IF s = None THEN "panic" ELSE "idle"
           /\ overflowed' =
                (\/ overflowed
                 \/ (s # None /\ ints_to_reject_overflows(ty, AsUnsigned(ty, s[1].range))))
    /\ op' = "new_inclusive"
    /\ frame' = None /\ v' = None /\ draws' = 0 /\ result' = None
    /\ UNCHANGED <<ty, low_b, high_b>>

\* my_uniform goes out of scope; UniformInt is Copy and has no destructor
Drop ==
    /\ pc = "idle"
    /\ sampler # None
    /\ sampler' = None
    /\ built' = "none"
    /\ op' = "none"
    /\ frame' = None /\ v' = None /\ draws' = 0 /\ result' = None
    /\ UNCHANGED <<ty, low_b, high_b, pc, overflowed>>

\* rng.sample(my_uniform) with range > 0: enter the loop (lines 117-121)
SampleEnter ==
    /\ pc = "idle"
    /\ sampler # None
    /\ LET f == sample_frame(ty, sampler[1])
       IN  /\ f.range > 0
           /\ frame' = Some(f)
    /\ pc' = "sample"
    /\ op' = "sample"
    /\ v' = None /\ draws' = 0 /\ result' = None
    /\ UNCHANGED <<ty, low_b, high_b, sampler, built, overflowed>>

\* rng.sample(my_uniform) with range = 0 (lines 128-131)
SampleFull ==
    /\ pc = "idle"
    /\ sampler # None
    /\ sample_frame(ty, sampler[1]).range = 0
    /\ \E w \in Words(ty) :
         /\ v' = Some(w)
         /\ result' = Some(gen_ty(ty, w))
    /\ draws' = 1
    /\ op' = "sample"
    /\ UNCHANGED <<ty, low_b, high_b, sampler, built, pc, frame, overflowed>>

\* an iteration of the loop of sample that returns (lines 122-126)
SampleAccept ==
    /\ pc = "sample"
    /\ \E w \in Words(ty) :
         LET it == sample_iter(ty, frame[1], w)
         IN  /\ it.accept
             /\ v' = Some(w)
             /\ result' = Some(it.value)
    /\ draws' = Bump(draws)
    /\ pc' = "idle"
    /\ frame' = None
    /\ UNCHANGED <<ty, low_b, high_b, sampler, built, op, overflowed>>

\* an iteration of the loop of sample that discards its word; v is a local
\* of the loop body and is gone at the head of the next iteration
SampleReject ==
    /\ pc = "sample"
    /\ \E w \in Words(ty) :
         ~sample_iter(ty, frame[1], w).accept
    /\ v' = None
    /\ draws' = Bump(draws)
    /\ UNCHANGED <<ty, low_b, high_b, sampler, built, pc, op, frame, result, overflowed>>

\* the body of sample_single_inclusive(low, high) after its assertion has
\* passed (lines 160-179), called as `name`
SingleBody(name, low, high) ==
    LET f == single_frame(ty, low, high)
    IN  /\ op' = name
        /\ IF f.range = 0
           THEN /\ \E w \in Words(ty) :
                     /\ v' = Some(w)
                     /\ result' = Some(gen_ty(ty, w))
                /\ draws' = 1
                /\ pc' = "idle"
                /\ frame' = None
           ELSE /\ v' = None /\ result' = None /\ draws' = 0
                /\ pc' = "single"
                /\ frame' = Some(f)

SinglePanic(name) ==
    /\ op' = name
    /\ pc' = "panic"
    /\ frame' = None /\ v' = None /\ draws' = 0 /\ result' = None

\* sample_single(low, high, rng), lines 135-144
SampleSingle ==
    /\ pc = "idle"
    /\ sampler = None
    /\ IF low_b < high_b
       THEN SingleBody("sample_single", low_b, wrapping_sub(ty, high_b, 1))
       ELSE SinglePanic("sample_single")
    /\ overflowed' = (overflowed \/ high_minus_one_overflows(ty, low_b, high_b))
    /\ UNCHANGED <<ty, low_b, high_b, sampler, built>>

\* sample_single_inclusive(low, high, rng), lines 147-179
SampleSingleInclusive ==
    /\ pc = "idle"
    /\ sampler = None
    /\ IF low_b <= high_b
       THEN SingleBody("sample_single_inclusive", low_b, high_b)
       ELSE SinglePanic("sample_single_inclusive")
    /\ UNCHANGED <<ty, low_b, high_b, sampler, built, overflowed>>

\* an iteration of the loop of sample_single_inclusive that returns
SingleAccept ==
    /\ pc = "single"
    /\ \E w \in Words(ty) :
         LET it == single_iter(ty, frame[1], w)
         IN  /\ it.accept
             /\ v' = Some(w)
             /\ result' = Some(it.value)
    /\ draws' = Bump(draws)
    /\ pc' = "idle"
    /\ frame' = None
    /\ UNCHANGED <<ty, low_b, high_b, sampler, built, op, overflowed>>

\* an iteration of the loop of sample_single_inclusive that discards its word
SingleReject ==
    /\ pc = "single"
    /\ \E w \in Words(ty) :
         ~single_iter(ty, frame[1], w).accept
    /\ v' = None
    /\ draws' = Bump(draws)
    /\ UNCHANGED <<ty, low_b, high_b, sampler, built, pc, op, frame, result, overflowed>>

Next ==
    \/ New
    \/ NewInclusive
    \/ Drop
    \/ SampleEnter
    \/ SampleFull
    \/ SampleAccept
    \/ SampleReject
    \/ SampleSingle
    \/ SampleSingleInclusive
    \/ SingleAccept
    \/ SingleReject

Spec == Init /\ [][Next]_vars

\* The entropy source is fair: a word the loop accepts is eventually drawn.
FairSpec == Spec /\ WF_vars(SampleAccept) /\ WF_vars(SingleAccept)

TypeOK ==
    /\ ty \in Types
    /\ low_b \in TyValues(ty) /\ high_b \in TyValues(ty)
    /\ pc \in {"idle", "sample", "single", "panic"}
    /\ draws \in 0..MaxDraws
    /\ \A i \in 1..Len(result) : result[i] \in TyValues(ty)
    /\ \A i \in 1..Len(v) : v[i] \in Words(ty)
    /\ \A i \in 1..Len(sampler) :
         /\ sampler[i].low \in TyValues(ty)
         /\ sampler[i].range \in TyValues(ty)
         /\ sampler[i].z \in TyValues(ty)

---------------------------------------------------------------------------
(* Helpers of the properties *)

\* the result of the call that has just returned
Returned == pc = "idle" /\ result # None

\* the distance from low up to r, counted in the type's width
Offset(t, low, r) == (r - low) % (2^Bits(t))

\* the words on which an iteration with the locals f accepts / rejects
SampleAccepted(t, f) == {w \in Words(t) : sample_iter(t, f, w).accept}
SingleAccepted(t, f) == {w \in Words(t) : single_iter(t, f, w).accept}

\* 2^w mod r by repeated doubling (no intermediate value exceeds 2r)
RECURSIVE Pow2Mod(_, _)
Pow2Mod(w, r) == IF w = 0 THEN 1 % r ELSE (2 * Pow2Mod(w - 1, r)) % r

\* the whole domain of the type is asked for
FullDomain == low_b = TyMin(ty) /\ high_b = TyMax(ty)

---------------------------------------------------------------------------
(* C1 *)

\* C1: a value returned by new_inclusive(low, high).sample or by
\* sample_single_inclusive(low, high) lies in [low, high]; a value returned
\* by new(low, high).sample or by sample_single(low, high) lies in
\* [low, high), in the ordering of the target type.
C1_ValueInRange ==
    Returned =>
      /\ (op = "sample" /\ built = "new_inclusive")
            => (low_b <= result[1] /\ result[1] <= high_b)
      /\ op = "sample_single_inclusive"
            => (low_b <= result[1] /\ result[1] <= high_b)
      /\ (op = "sample" /\ built = "new")
            => (low_b <= result[1] /\ result[1] < high_b)
      /\ op = "sample_single"
            => (low_b <= result[1] /\ result[1] < high_b)

\* a signed exclusive range across zero, sampled after a rejected word, has
\* returned its topmost value
C1_Witness ==
    /\ Returned /\ op = "sample" /\ built = "new"
    /\ ty = "i32" /\ low_b = -3 /\ high_b = 4
    /\ draws = 2 /\ result[1] = 3

---------------------------------------------------------------------------
(* C2 *)

\* C2: in sample with range > 0 the accept test rejects exactly threshold
\* of the 2^W words, and every offset k in [0, range) is returned (as
\* low + k) for exactly (2^W - threshold) / range accepted words.
C2_ExactlyUniform ==
    pc = "sample" =>
      LET f == frame[1]
          threshold == AsUnsigned(ty, sampler[1].z)
          domain == 2^LargeBits(ty)
          acc == SampleAccepted(ty, f)
      IN  /\ f.range > 0
          /\ Cardinality(Words(ty) \ acc) = threshold
          /\ (domain - threshold) % f.range = 0
          /\ \A k \in 0..(f.range - 1) :
               Cardinality({w \in acc :
                   Offset(ty, f.low, sample_iter(ty, f, w).value) = k})
                 = (domain - threshold) \div f.range

\* the loop of sample runs for a range that does not divide the word domain
C2_Witness ==
    /\ pc = "sample" /\ ty = "u32"
    /\ frame[1].range = 10
    /\ AsUnsigned(ty, sampler[1].z) > 0

---------------------------------------------------------------------------
(* C3 *)

\* C3: new_inclusive(low, high) fails iff low > high, new(low, high) fails
\* iff low >= high; otherwise a sampler is returned, and high - 1 in new
\* never overflows.  new(10, 5) and new(10, 10) fail, new_inclusive(10, 10)
\* succeeds.
C3_InvalidRange ==
    /\ op = "new" =>
         /\ (pc = "panic") <=> (low_b >= high_b)
         /\ pc # "panic" => (sampler # None /\ built = "new")
         /\ (low_b = 10 /\ high_b \in {5, 10}) => pc = "panic"
    /\ op = "new_inclusive" =>
         /\ (pc = "panic") <=> (low_b > high_b)
         /\ pc # "panic" => (sampler # None /\ built = "new_inclusive")
         /\ (low_b = 10 /\ high_b = 10) => pc # "panic"
    /\ ~overflowed

\* new(10, 10) has failed after new_inclusive(10, 10) had succeeded
C3_Witness ==
    /\ op = "new" /\ pc = "panic"
    /\ low_b = 10 /\ high_b = 10
    /\ built = "new_inclusive" /\ sampler # None

---------------------------------------------------------------------------
(* C4 *)

\* C4: with low = type-minimum and high = type-maximum, sample and
\* sample_single_inclusive never enter the rejection loop; a draw requests
\* exactly one word and returns it reinterpreted as the target type.
C4_FullDomain ==
    (FullDomain /\ (\/ op = "sample" /\ built = "new_inclusive"
                    \/ op = "sample_single_inclusive")) =>
      /\ pc \notin {"sample", "single", "panic"}
      /\ result # None
      /\ draws = 1
      /\ v # None
      /\ result[1] \in TyValues(ty)
      /\ (result[1] - v[1]) % (2^Bits(ty)) = 0

\* a word with the sign bit of an 8-bit signed type set, and with bits above
\* the type's width, was returned as a negative value
C4_Witness ==
    /\ FullDomain /\ op = "sample" /\ built = "new_inclusive"
    /\ ty = "i8" /\ v # None /\ v[1] >= 2^Bits(ty)
    /\ result # None /\ result[1] < 0

---------------------------------------------------------------------------
(* C5 *)

\* C5: a sampler built by new_inclusive(x, x) returns x on every draw,
\* whatever word the entropy source delivers.
C5_SingleValue ==
    (Returned /\ op = "sample" /\ built = "new_inclusive" /\ low_b = high_b)
        => result[1] = low_b

\* new_inclusive(10, 10) has returned 10 on the largest word
C5_Witness ==
    /\ Returned /\ op = "sample" /\ built = "new_inclusive"
    /\ low_b = 10 /\ high_b = 10 /\ result[1] = 10
    /\ v[1] = unsigned_max(ty)

---------------------------------------------------------------------------
(* C6 *)

\* C6: the stored threshold, read back as an unsigned value, is 2^W mod
\* range when range > 0 (so 0 <= threshold < range, nothing is lost in the
\* target-width field and nothing overflows on the way), and is 0 when
\* range = 0.  For [0, 9] it is 2^W mod 10, which is 6 for W = 32.
C6_Threshold ==
    /\ sampler # None =>
         LET range == AsUnsigned(ty, sampler[1].range)
             threshold == AsUnsigned(ty, sampler[1].z)
         IN  /\ range > 0 =>
                  /\ threshold = (2^LargeBits(ty)) % range
                  /\ 0 <= threshold /\ threshold < range
             /\ range = 0 => sampler[1].z = 0
             /\ (built = "new_inclusive" /\ low_b = 0 /\ high_b = 9)
                  => threshold = Pow2Mod(LargeBits(ty), 10)
    /\ ~overflowed
    /\ Pow2Mod(32, 10) = 6

\* an 8-bit sampler whose word is wider than its fields holds a threshold
\* that is not zero
C6_Witness ==
    /\ sampler # None /\ ty = "i8" /\ built = "new_inclusive"
    /\ AsUnsigned(ty, sampler[1].range) = 3
    /\ AsUnsigned(ty, sampler[1].z) = 1

---------------------------------------------------------------------------
(* C7 *)

\* C7: the stored range, read as an unsigned value of the type's width, is
\* the count of values asked for whenever that count is below 2^width, and
\* is 0 exactly when low = type-minimum and high = type-maximum; new(low, h)
\* stores low and range = h - low, as new_inclusive(low, h - 1) does
\* (2..7 gives low = 2, range = 5).
C7_Range ==
    sampler # None =>
      LET range == AsUnsigned(ty, sampler[1].range)
          count == IF built = "new" THEN high_b - low_b
                                    ELSE high_b - low_b + 1
      IN  /\ sampler[1].low = low_b
          /\ count < 2^Bits(ty) => range = count
          /\ (range = 0) <=> (built = "new_inclusive" /\ FullDomain)
          /\ (built = "new" /\ low_b = 2 /\ high_b = 7) => range = 5
          /\ (built = "new_inclusive" /\ low_b = 2 /\ high_b = 6) => range = 5

\* Uniform::from(2u32..7)
C7_Witness ==
    /\ sampler # None /\ ty = "u32" /\ built = "new"
    /\ low_b = 2 /\ high_b = 7
    /\ sampler[1].low = 2 /\ sampler[1].range = 5

---------------------------------------------------------------------------
(* C8 *)

\* the type takes the approximate branch of sample_single_inclusive
Wide(t) == ~(UnsignedMax(t) <= AsUnsigned(t, U16Max))

\* MAX_UNSIGNED - ((MAX_UNSIGNED - range + 1) mod range)
ExactBoundary(t, range) ==
    unsigned_max(t) - ((unsigned_max(t) - range + 1) % range)

\* C8: at widths above 16 bits and for range > 0, the boundary
\* (range << leading_zeros(range)) - 1 of sample_single_inclusive is at most
\* the exact boundary, every word it accepts the exact rule accepts, and
\* every offset k in [0, range) is returned for the same number of accepted
\* words.
C8_ApproximationUnbiased ==
    (pc = "single" /\ Wide(ty)) =>
      LET f == frame[1]
          acc == SingleAccepted(ty, f)
          hits(k) == Cardinality({w \in acc :
                        Offset(ty, f.low, single_iter(ty, f, w).value) = k})
      IN  /\ f.range > 0
          /\ f.zone <= ExactBoundary(ty, f.range)
          /\ \A w \in acc : wmul(ty, w, f.range).lo <= ExactBoundary(ty, f.range)
          /\ hits(0) > 0
          /\ \A k \in 0..(f.range - 1) : hits(k) = hits(0)

\* the single-shot loop runs at a wide width with a boundary strictly below
\* the exact one
C8_Witness ==
    /\ pc = "single" /\ Wide(ty) /\ ty = "i32"
    /\ frame[1].range = 5
    /\ frame[1].zone < ExactBoundary(ty, 5)

---------------------------------------------------------------------------
(* C9 *)

\* more than half of the words are accepted, an accepting word exists at
\* every iteration, and a rejecting one whenever the threshold is not zero,
\* however many words have been drawn
C9_MajorityAccepted ==
    pc = "sample" =>
      /\ frame[1].range > 0
      /\ 2 * Cardinality(SampleAccepted(ty, frame[1])) > 2^LargeBits(ty)
      /\ ENABLED SampleAccept
      /\ AsUnsigned(ty, sampler[1].z) > 0 => ENABLED SampleReject

\* the loop of sample is left only by returning a value for an accepted word
C9_ReturnsOnlyAccepted ==
    (pc = "sample" /\ pc' # "sample") =>
      /\ pc' = "idle" /\ result' # None /\ v' # None
      /\ sample_iter(ty, frame[1], v'[1]).accept
      /\ result'[1] = sample_iter(ty, frame[1], v'[1]).value

\* C9: for a sampler with range > 0 strictly more than half of all words
\* are accepted by one attempt, so an accepting word is available at every
\* iteration and a draw eventually returns under a fair entropy source; the
\* loop has no iteration cap and returns only on an accepted word.
C9_SampleTerminates ==
    /\ [](C9_MajorityAccepted)
    /\ [][C9_ReturnsOnlyAccepted]_vars
    /\ (pc = "sample") ~> (pc = "idle" /\ result # None)

\* the loop is still running after MaxDraws rejected words, at a range just
\* above half of the word domain
C9_Witness ==
    /\ pc = "sample" /\ draws = MaxDraws
    /\ 2 * frame[1].range = 2^LargeBits(ty) + 2

---------------------------------------------------------------------------
(* C10 *)

\* the locals sample works with for the sampler new_inclusive builds for the
\* pair under test
PersistentFrame == sample_frame(ty, new_inclusive(ty, low_b, high_b)[1])

\* C10: sample_single_inclusive(low, high) and new_inclusive(low, high).sample
\* agree.  At widths of 16 bits or less they accept the same words and
\* return the same value on each (hence consume the same number of words of
\* any sequence); at wider widths every word the single-shot sampler accepts
\* the persistent one accepts, with the same value.  Both take the
\* one-word path for the same pairs.
C10_SingleAgreesWithPersistent ==
    /\ (pc = "single" /\ op = "sample_single_inclusive") =>
         LET f == frame[1]
             g == PersistentFrame
         IN  /\ g.range > 0
             /\ \A w \in Words(ty) :
                  /\ single_iter(ty, f, w).accept => sample_iter(ty, g, w).accept
                  /\ single_iter(ty, f, w).accept =>
                       single_iter(ty, f, w).value = sample_iter(ty, g, w).value
                  /\ ~Wide(ty) =>
                       (single_iter(ty, f, w).accept <=> sample_iter(ty, g, w).accept)
    /\ (Returned /\ op = "sample_single_inclusive") =>
         LET g == PersistentFrame
         IN  IF g.range > 0
             THEN /\ sample_iter(ty, g, v[1]).accept
                  /\ sample_iter(ty, g, v[1]).value = result[1]
             ELSE draws = 1 /\ result[1] = gen_ty(ty, v[1])

\* a 16-bit single-shot call has returned after a rejected word
C10_Witness ==
    /\ Returned /\ op = "sample_single_inclusive"
    /\ ty = "i16" /\ draws = 2
    /\ low_b = -2 /\ high_b = 2 /\ result[1] = 2

====
